---- MODULE Spec2Model ----
(***************************************************************************)
(* Model of the podcast player's state coordination.                       *)
(*                                                                         *)
(* The repository holds two programs over the same collaborators (the     *)
(* feed, the downloads directory, pygame.mixer.music):                     *)
(*                                                                         *)
(*  - src/main.py, the application PodcastPlayer: one presentation thread  *)
(*    (run) that handles the events and makes the per-frame end-of-track   *)
(*    check, and one daemon thread per play_episode request that downloads *)
(*    the file and then loads and plays it.  The fields of PodcastPlayer   *)
(*    are shared by all threads without a lock, so a step of the model is  *)
(*    one read or one write of a shared field, or one call of the mixer.   *)
(*                                                                         *)
(*  - src/media_player.py, the services DownloadService and AudioPlayer,   *)
(*    called by a client: download_episode runs on worker threads and      *)
(*    writes its two fields under a lock, the methods of AudioPlayer are   *)
(*    called one at a time.                                                *)
(*                                                                         *)
(* The variable app says which of the two runs.  Progress is the           *)
(* percentage (downloaded / total_size) * 100; the model keeps its integer *)
(* part.                                                                   *)
(***************************************************************************)
EXTENDS Integers, Sequences, FiniteSets, Bags, TLC

\* ------------------------------------------------------------------ bounds
MaxThreads == 2     \* download threads running at the same time
MaxBytes == 2       \* units of data one response can deliver
MaxLength == 1      \* the content-length a response declares, in the same units

\* ------------------------------------------------------------------ values
\* an optional value: None, or Some(x)
None == << >>
Some(x) == << x >>

\* feed entries: a title, and whether the entry has an audio enclosure
EpA == [title |-> "a", enclosures |-> TRUE]
EpB == [title |-> "b", enclosures |-> TRUE]
EpN == [title |-> "n", enclosures |-> FALSE]

\* the lists the feed can serve
Feeds == { <<EpA, EpB, EpN>> }

\* the lists the feed can serve when its content changes between two fetches
FeedChoices == Feeds \cup { <<EpN, EpB>> }

\* main.py:105  parsed['episodes'][:20]
FetchLimit == 20

\* the limit argument of PodcastFeedService.fetch_episodes: its default, or 1
Limits == {1, FetchLimit}

\* downloads_dir / f"episode_{index}.mp3", named by its index
FileNames == 0 .. 2

\* the Episode objects a client of the services holds
Episodes == { [title |-> "a", index |-> 0], [title |-> "b", index |-> 1] }

\* content-length header: 0 when the header is absent
Lengths == {0, MaxLength}

VARIABLES
    app,               \* "main": PodcastPlayer runs; "svc": a client of the services
    remote,            \* the entries the feed serves at present
    fetched,           \* what PodcastFeedService.fetch_episodes returned last
    episodes,          \* PodcastPlayer.episodes
    current_episode,   \* PodcastPlayer.current_episode
    audio_file,        \* PodcastPlayer.audio_file
    is_playing,        \* PodcastPlayer.is_playing
    is_paused,         \* PodcastPlayer.is_paused
    download_progress, \* PodcastPlayer.download_progress
    is_downloading,    \* PodcastPlayer.is_downloading
    state,             \* AudioPlayer.state
    ap_episode,        \* AudioPlayer.current_episode
    current_file,      \* AudioPlayer.current_file
    progress,          \* DownloadService.progress
    ds_downloading,    \* DownloadService.is_downloading
    mixer,             \* pygame.mixer.music: the loaded file and its stream
    files,             \* the downloads directory: the state of each file
    threads,           \* the download threads that are running (a bag)
    main,              \* the presentation thread: its position in run()
    hist               \* history: the calls made in a row, and the state before them

vars == << app, remote, fetched, episodes, current_episode, audio_file, is_playing, is_paused,
           download_progress, is_downloading, state, ap_episode, current_file,
           progress, ds_downloading, mixer, files, threads, main, hist >>

\* the fields of AudioPlayer and DownloadService
svc == << state, ap_episode, current_file, progress, ds_downloading >>

\* the fields of PodcastPlayer
fields == << episodes, current_episode, audio_file, is_playing, is_paused,
             download_progress, is_downloading >>

\* ------------------------------------------------------------------ mixer
\* pygame.mixer.music.get_busy(): true while the stream is playing
get_busy == mixer.st = "playing"

MixerLoad(f) == [file |-> f, st |-> "stopped"]
MixerPlay == IF mixer.file = None THEN mixer ELSE [mixer EXCEPT !.st = "playing"]
MixerStop == [mixer EXCEPT !.st = "stopped"]
MixerPause == IF mixer.st = "playing" THEN [mixer EXCEPT !.st = "paused"] ELSE mixer
MixerUnpause == IF mixer.st = "paused" THEN [mixer EXCEPT !.st = "playing"] ELSE mixer

\* ------------------------------------------------------------------ threads
\* A running thread is a record: its position pc, the file it writes (idx)
\* and the url it reads, the locals total_size and downloaded of
\* download_episode, and sup: a later request was issued while this one was
\* still downloading.  Threads are anonymous, so the running ones form a bag.
NewThread(pc, index, title) ==
    [pc |-> pc, idx |-> index, url |-> title, total |-> 0, downloaded |-> 0,
     sup |-> FALSE]

\* a thread inside download_episode: main.py:61-77, media_player.py:112-139
DownloadPcs == {"l61", "l62", "l64", "l71", "l77", "d112", "d119", "d126", "d137", "d137e"}

Running == BagToSet(threads)
Downloading(r) == r.pc \in DownloadPcs

\* thread r takes a step and becomes q
Becomes(r, q) == (threads (-) SetToBag({r})) (+) SetToBag({q})
Goto(r, p) == Becomes(r, [r EXCEPT !.pc = p])
\* thread r ends, by returning from its target or by an exception
Exit(r) == threads (-) SetToBag({r})

\* the bag b with f applied to each of its elements
BagMap(f(_), b) ==
    LET image == { f(r) : r \in BagToSet(b) } IN
    LET copies(q) == { r \in BagToSet(b) : f(r) = q } IN
    LET RECURSIVE sum(_)
        sum(S) == IF S = {} THEN 0
                  ELSE LET r == CHOOSE x \in S : TRUE IN b[r] + sum(S \ {r})
    IN [q \in image |-> sum(copies(q))]

\* threading.Thread(target=...).start(): the new thread, and the mark on the
\* earlier requests whose download had not completed when this one was issued
StartThread(new) ==
    LET mark(r) == IF Downloading(r) THEN [r EXCEPT !.sup = TRUE] ELSE r IN
    BagMap(mark, threads) (+) SetToBag({new})

\* ------------------------------------------------------------------ history
\* The playback state that the callers of toggle and stop observe.
View ==
    IF app = "main"
       THEN [playing |-> is_playing, paused |-> is_paused,
             episode |-> current_episode, file |-> audio_file, out |-> mixer]
       ELSE [playing |-> state # "stopped", paused |-> state = "paused",
             episode |-> ap_episode, file |-> current_file, out |-> mixer]

\* The calls of one operation (op) made in a row while no thread runs and the
\* track does not end: n counts the calls that have returned; snap is the
\* playback state before the first toggle, or before the second stop.
NoHist == [op |-> "none", n |-> 0, snap |-> None]
\* fetch_episodes has printed "Error fetching feed" and returned
ReportedError ==
    IF threads # EmptyBag THEN NoHist
    ELSE [op |-> "fetch_error", n |-> 0, snap |-> None]
\* load_and_play(file_path, episode) has returned: the playback state before
\* the call and the arguments
LoadReturned(file_path, episode) ==
    IF threads # EmptyBag THEN NoHist
    ELSE [op |-> "load", n |-> 0,
          snap |-> Some([before |-> View, file_path |-> file_path, episode |-> episode])]
\* load_and_play has raised pygame.error
LoadRaised ==
    IF threads # EmptyBag THEN NoHist
    ELSE [op |-> "load_error", n |-> 0, snap |-> None]
\* toggle_play_pause is entered
EnterToggle ==
    IF threads # EmptyBag THEN NoHist
    ELSE IF hist.op = "toggle" /\ hist.n = 1 THEN hist
    ELSE [op |-> "toggle", n |-> 0, snap |-> Some(View)]
\* the application has one download thread, and it is inside download_episode
PendingDownload ==
    /\ app = "main"
    /\ BagCardinality(threads) = 1
    /\ \A r \in Running : Downloading(r)
\* stop is entered; "stop_pending" when it is called during the only download
EnterStop ==
    IF PendingDownload THEN [op |-> "stop_pending", n |-> 0, snap |-> None]
    ELSE IF threads # EmptyBag THEN NoHist
    ELSE IF hist.op = "stop" /\ hist.n = 1 THEN [hist EXCEPT !.snap = Some(View)]
    ELSE [op |-> "stop", n |-> 0, snap |-> None]
\* the operation returns, h being the history when it does
Returned(h) ==
    IF h.op = "toggle" THEN [h EXCEPT !.n = @ + 1]
    ELSE IF h.op = "stop" THEN [op |-> "stop", n |-> 1, snap |-> None]
    ELSE IF h.op = "stop_pending" /\ PendingDownload THEN [h EXCEPT !.n = 1]
    ELSE NoHist

Percent(downloaded, total) == (downloaded * 100) \div total

\* list[:limit]
Take(list, limit) == SubSeq(list, 1, IF limit < Len(list) THEN limit ELSE Len(list))

\* the programs after construction, whatever the feed serves
Constructed ==
    /\ app \in {"main", "svc"}
    /\ fetched = None
    /\ episodes = << >>
    /\ current_episode = None
    /\ audio_file = None
    /\ is_playing = FALSE
    /\ is_paused = FALSE
    /\ download_progress = 0
    /\ is_downloading = FALSE
    /\ state = "stopped"
    /\ ap_episode = None
    /\ current_file = None
    /\ progress = 0
    /\ ds_downloading = FALSE
    /\ mixer = [file |-> None, st |-> "stopped"]
    /\ files = [f \in FileNames |-> "absent"]
    /\ threads = EmptyBag
    /\ main = "events"
    /\ hist = NoHist

Init == Constructed /\ remote \in Feeds

\* ------------------------------------------------------------------ download_and_play
\* main.py:61  self.is_downloading = True
L61(r) ==
    /\ r.pc = "l61"
    /\ is_downloading' = TRUE
    /\ threads' = Goto(r, "l62")
    /\ UNCHANGED << app, remote, fetched, episodes, current_episode, audio_file, is_playing, is_paused,
                    download_progress, svc, mixer, files, main, hist >>

\* main.py:62  self.download_progress = 0
L62(r) ==
    /\ r.pc = "l62"
    /\ download_progress' = 0
    /\ threads' = Goto(r, "l64")
    /\ UNCHANGED << app, remote, fetched, episodes, current_episode, audio_file, is_playing, is_paused,
                    is_downloading, svc, mixer, files, main, hist >>

\* main.py:64-70  requests.get, raise_for_status, content-length (0 if the
\* header is absent), and open(filename, 'wb'), which creates or truncates
\* the file; or the request raises and the thread ends
L64(r) ==
    /\ r.pc = "l64"
    /\ \/ \E len \in Lengths :
            /\ threads' = Becomes(r, [r EXCEPT !.pc = "l71", !.total = len])
            /\ files' = [files EXCEPT ![r.idx] = "partial"]
       \/ /\ threads' = Exit(r)
          /\ UNCHANGED files
    /\ UNCHANGED << app, remote, fetched, fields, svc, mixer, main, hist >>

\* lines 74-75 without the test of total_size: an estimate is made up from
\* the largest size seen when the length is unknown
ChunkProgress_Estimate(r, downloaded) ==
    Percent(downloaded, IF r.total # 0 THEN r.total ELSE MaxBytes)

\* main.py:74-75  if total_size: self.download_progress = (downloaded / total_size) * 100
ChunkProgress(r, downloaded) ==
    IF r.total # 0 THEN Percent(downloaded, r.total) ELSE download_progress

\* main.py:71-75  one chunk: write it, count it, update the progress
L71Chunk(r) ==
    /\ r.pc = "l71"
    /\ r.downloaded < MaxBytes
    /\ \E n \in 1 .. (MaxBytes - r.downloaded) :
         /\ threads' = Becomes(r, [r EXCEPT !.downloaded = @ + n])
         /\ download_progress' = ChunkProgress(r, r.downloaded + n)
    /\ UNCHANGED << app, remote, fetched, episodes, current_episode, audio_file, is_playing, is_paused,
                    is_downloading, svc, mixer, files, main, hist >>

\* main.py:70-76  end of stream: the with block closes the file
L71End(r) ==
    /\ r.pc = "l71"
    /\ files' = [files EXCEPT ![r.idx] = "complete"]
    /\ threads' = Goto(r, "l77")
    /\ UNCHANGED << app, remote, fetched, fields, svc, mixer, main, hist >>

\* main.py:71  iter_content raises mid-stream: the exception leaves
\* download_episode and download_and_play, and the thread ends
L71Fail(r) ==
    /\ r.pc = "l71"
    /\ threads' = Exit(r)
    /\ UNCHANGED << app, remote, fetched, fields, svc, mixer, files, main, hist >>

\* main.py:77-78  self.is_downloading = False; return filename
L77(r) ==
    /\ r.pc = "l77"
    /\ is_downloading' = FALSE
    /\ threads' = Becomes(r, [r EXCEPT !.pc = "l127", !.total = 0, !.downloaded = 0])
    /\ UNCHANGED << app, remote, fetched, episodes, current_episode, audio_file, is_playing, is_paused,
                    download_progress, svc, mixer, files, main, hist >>

\* main.py:127  self.audio_file = <the returned filename>
L127(r) ==
    /\ r.pc = "l127"
    /\ audio_file' = Some(r.idx)
    /\ threads' = Goto(r, "l128")
    /\ UNCHANGED << app, remote, fetched, episodes, current_episode, is_playing, is_paused,
                    download_progress, is_downloading, svc, mixer, files, main, hist >>

\* main.py:128  pygame.mixer.music.load(str(self.audio_file)); load stops the
\* stream that was playing, or raises pygame.error and the thread ends
L128(r) ==
    /\ r.pc = "l128"
    /\ \/ /\ mixer' = MixerLoad(audio_file)
          /\ threads' = Becomes(r, [r EXCEPT !.pc = "l129", !.sup = FALSE])
       \/ /\ threads' = Exit(r)
          /\ UNCHANGED mixer
    /\ UNCHANGED << app, remote, fetched, fields, svc, files, main, hist >>

\* main.py:129  pygame.mixer.music.play()
L129(r) ==
    /\ r.pc = "l129"
    /\ mixer' = MixerPlay
    /\ threads' = Goto(r, "l130")
    /\ UNCHANGED << app, remote, fetched, fields, svc, files, main, hist >>

\* line 130 guarded by the selection: a completion that finds the current
\* episode cleared by stop does not report Playing
L130_IfCurrent(r) ==
    /\ r.pc = "l130"
    /\ is_playing' = (current_episode # None)
    /\ threads' = Goto(r, "l131")
    /\ UNCHANGED << app, remote, fetched, episodes, current_episode, audio_file, is_paused,
                    download_progress, is_downloading, svc, mixer, files, main, hist >>

\* main.py:130  self.is_playing = True
L130(r) ==
    /\ r.pc = "l130"
    /\ is_playing' = TRUE
    /\ threads' = Goto(r, "l131")
    /\ UNCHANGED << app, remote, fetched, episodes, current_episode, audio_file, is_paused,
                    download_progress, is_downloading, svc, mixer, files, main, hist >>

\* main.py:131  self.is_paused = False, and download_and_play returns
L131(r) ==
    /\ r.pc = "l131"
    /\ is_paused' = FALSE
    /\ threads' = Exit(r)
    /\ UNCHANGED << app, remote, fetched, episodes, current_episode, audio_file, is_playing,
                    download_progress, is_downloading, svc, mixer, files, main, hist >>

\* the track that is playing reaches its end
TrackEnds ==
    /\ mixer.st = "playing"
    /\ mixer' = MixerStop
    /\ hist' = NoHist
    /\ UNCHANGED << app, remote, fetched, fields, svc, files, threads, main >>

\* ------------------------------------------------------------------ presentation thread
\* the handler of lines 108-109 with the list cleared, as a caller that
\* stores the empty result of PodcastFeedService.fetch_episodes would do
ClearOnFailure == episodes' = << >>

\* main.py:108-109  except Exception: print(...); self.episodes keeps its value
RetainOnFailure == UNCHANGED episodes

\* fetch_episodes as a refresh that also drops the selection: the current
\* episode is cleared with the list it came from
fetch_episodes_Reset ==
    /\ app = "main"
    /\ main = "events"
    /\ \/ /\ episodes' = Take(remote, FetchLimit)
          /\ hist' = NoHist
       \/ /\ RetainOnFailure
          /\ hist' = ReportedError
    /\ current_episode' = None
    /\ UNCHANGED << app, remote, fetched, audio_file, is_playing, is_paused,
                    download_progress, is_downloading, svc, mixer, files, threads, main >>

\* main.py:101-109  fetch_episodes: the first 20 entries replace the list;
\* or urlopen / parse raises, the exception is caught and printed, and the
\* call returns as well
fetch_episodes ==
    /\ app = "main"
    /\ main = "events"
    /\ \/ /\ episodes' = Take(remote, FetchLimit)
          /\ hist' = NoHist
       \/ /\ RetainOnFailure
          /\ hist' = ReportedError
    /\ UNCHANGED << app, remote, fetched, current_episode, audio_file, is_playing, is_paused,
                    download_progress, is_downloading, svc, mixer, files, threads, main >>

\* main.py:119  the audio enclosure test
HasEnclosures(episode) == episode.enclosures

\* main.py:111-135  play_episode; the fields the new thread will write are
\* not touched here, so the call is one step
play_episode(episode_index) ==
    /\ app = "main"
    /\ main = "events"
    /\ BagCardinality(threads) < MaxThreads
    /\ IF episode_index >= Len(episodes)
          THEN UNCHANGED << current_episode, threads >>
          ELSE LET episode == episodes[episode_index + 1] IN
               /\ current_episode' = Some(episode)
               /\ IF ~HasEnclosures(episode)
                     THEN UNCHANGED threads
                     ELSE threads' = StartThread(NewThread("l61", episode_index, episode.title))
    /\ hist' = NoHist
    /\ UNCHANGED << app, remote, fetched, episodes, audio_file, is_playing, is_paused,
                    download_progress, is_downloading, svc, mixer, files, main >>

\* main.py:137-145  toggle_play_pause, one step per call of the mixer and
\* per write.  The two reads of lines 139-140 are one step: is_playing is
\* reset, and is_paused is set, by this thread only.
Toggle139 ==
    /\ app = "main"
    /\ main = "events"
    /\ main' = IF ~is_playing THEN "events" ELSE IF is_paused THEN "g141" ELSE "g144"
    /\ hist' = IF is_playing THEN EnterToggle ELSE Returned(EnterToggle)
    /\ UNCHANGED << app, remote, fetched, fields, svc, mixer, files, threads >>

\* line 141: pygame.mixer.music.unpause()
Toggle141 ==
    /\ main = "g141"
    /\ mixer' = MixerUnpause
    /\ main' = "g142"
    /\ UNCHANGED << app, remote, fetched, fields, svc, files, threads, hist >>

\* line 142 with the write forgotten: the flag stays set after unpause()
Toggle142_NoClear ==
    /\ main = "g142"
    /\ main' = "events"
    /\ hist' = Returned(hist)
    /\ UNCHANGED << app, remote, fetched, fields, svc, mixer, files, threads >>

\* line 142: self.is_paused = False
Toggle142 ==
    /\ main = "g142"
    /\ is_paused' = FALSE
    /\ main' = "events"
    /\ hist' = Returned(hist)
    /\ UNCHANGED << app, remote, fetched, episodes, current_episode, audio_file, is_playing,
                    download_progress, is_downloading, svc, mixer, files, threads >>

\* line 144: pygame.mixer.music.pause()
Toggle144 ==
    /\ main = "g144"
    /\ mixer' = MixerPause
    /\ main' = "g145"
    /\ UNCHANGED << app, remote, fetched, fields, svc, files, threads, hist >>

\* line 145: self.is_paused = True
Toggle145 ==
    /\ main = "g145"
    /\ is_paused' = TRUE
    /\ main' = "events"
    /\ hist' = Returned(hist)
    /\ UNCHANGED << app, remote, fetched, episodes, current_episode, audio_file, is_playing,
                    download_progress, is_downloading, svc, mixer, files, threads >>

\* main.py:147-152  stop_playback
\* line 149: pygame.mixer.music.stop()
Stop149 ==
    /\ app = "main"
    /\ main = "events"
    /\ mixer' = MixerStop
    /\ main' = "s150"
    /\ hist' = EnterStop
    /\ UNCHANGED << app, remote, fetched, fields, svc, files, threads >>

\* line 150: self.is_playing = False
Stop150 ==
    /\ main = "s150"
    /\ is_playing' = FALSE
    /\ main' = "s151"
    /\ UNCHANGED << app, remote, fetched, episodes, current_episode, audio_file, is_paused,
                    download_progress, is_downloading, svc, mixer, files, threads, hist >>

\* lines 151-152: self.is_paused = False; self.current_episode = None (a
\* field only this thread writes), and stop_playback returns
Stop151 ==
    /\ main = "s151"
    /\ is_paused' = FALSE
    /\ current_episode' = None
    /\ main' = "events"
    /\ hist' = Returned(hist)
    /\ UNCHANGED << app, remote, fetched, episodes, audio_file, is_playing,
                    download_progress, is_downloading, svc, mixer, files, threads >>

\* main.py:456-458  the per-frame check.  The reads of is_playing and of
\* get_busy() are one step: is_playing is reset by this thread only.
Tick457 ==
    /\ app = "main"
    /\ main = "events"
    /\ main' = IF is_playing /\ ~get_busy THEN "k457c" ELSE "draw"
    /\ hist' = NoHist
    /\ UNCHANGED << app, remote, fetched, fields, svc, mixer, files, threads >>

\* line 457: not self.is_paused
Tick457c ==
    /\ main = "k457c"
    /\ main' = IF ~is_paused THEN "k458" ELSE "draw"
    /\ UNCHANGED << app, remote, fetched, fields, svc, mixer, files, threads, hist >>

\* line 458: self.is_playing = False
Tick458 ==
    /\ main = "k458"
    /\ is_playing' = FALSE
    /\ main' = "draw"
    /\ UNCHANGED << app, remote, fetched, episodes, current_episode, audio_file, is_paused,
                    download_progress, is_downloading, svc, mixer, files, threads, hist >>

\* main.py:460-461  draw and clock.tick: the frame ends
EndFrame ==
    /\ main = "draw"
    /\ main' = "events"
    /\ UNCHANGED << app, remote, fetched, fields, svc, mixer, files, threads, hist >>

\* ------------------------------------------------------------------ PodcastFeedService
\* media_player.py:82-94  the loop over enumerate(parsed['episodes'][:limit]):
\* an entry with enclosures becomes an Episode with index = i, the position
\* of the entry in the list that was enumerated
FetchEpisodes(parsed, limit) ==
    LET head == Take(parsed, limit) IN
    LET RECURSIVE build(_)
        build(i) ==
            IF i >= Len(head) THEN << >>
            ELSE (IF HasEnclosures(head[i + 1])
                     THEN << [title |-> head[i + 1].title, index |-> i] >>
                     ELSE << >>) \o build(i + 1)
    IN build(0)

\* media_player.py:76-98  fetch_episodes(limit): the list of Episode, or the
\* empty list when urlopen / parse raises
service_fetch_episodes(limit) ==
    /\ app = "svc"
    /\ \/ fetched' = Some(FetchEpisodes(remote, limit))
       \/ fetched' = Some(<< >>)
    /\ hist' = NoHist
    /\ UNCHANGED << app, remote, fields, svc, mixer, files, threads, main >>

\* the feed publishes another list of entries
FeedChanges ==
    /\ remote' \in FeedChoices \ {remote}
    /\ UNCHANGED << app, fetched, fields, svc, mixer, files, threads, main, hist >>

\* ------------------------------------------------------------------ DownloadService
\* a client calls download_episode(episode) on a new worker thread
download_episode(episode) ==
    /\ app = "svc"
    /\ BagCardinality(threads) < MaxThreads
    /\ threads' = StartThread(NewThread("d112", episode.index, episode.title))
    /\ hist' = NoHist
    /\ UNCHANGED << app, remote, fetched, fields, svc, mixer, files, main >>

\* media_player.py:112-114  with self._lock: is_downloading = True; progress = 0
D112(r) ==
    /\ r.pc = "d112"
    /\ ds_downloading' = TRUE
    /\ progress' = 0
    /\ threads' = Goto(r, "d119")
    /\ UNCHANGED << app, remote, fetched, fields, state, ap_episode, current_file, mixer, files, main, hist >>

\* media_player.py:119-125  the request, the content-length and open(); or
\* the request raises and control passes to the finally block
D119(r) ==
    /\ r.pc = "d119"
    /\ \/ \E len \in Lengths :
            /\ threads' = Becomes(r, [r EXCEPT !.pc = "d126", !.total = len])
            /\ files' = [files EXCEPT ![r.idx] = "partial"]
       \/ /\ threads' = Goto(r, "d137e")
          /\ UNCHANGED files
    /\ UNCHANGED << app, remote, fetched, fields, svc, mixer, main, hist >>

\* media_player.py:129-131  if total_size: with self._lock: self.progress = ...
ServiceChunkProgress(r, downloaded) ==
    IF r.total # 0 THEN Percent(downloaded, r.total) ELSE progress

\* media_player.py:126-133  one chunk
D126Chunk(r) ==
    /\ r.pc = "d126"
    /\ r.downloaded < MaxBytes
    /\ \E n \in 1 .. (MaxBytes - r.downloaded) :
         /\ threads' = Becomes(r, [r EXCEPT !.downloaded = @ + n])
         /\ progress' = ServiceChunkProgress(r, r.downloaded + n)
    /\ UNCHANGED << app, remote, fetched, fields, state, ap_episode, current_file, ds_downloading,
                    mixer, files, main, hist >>

\* media_player.py:125-135  end of stream: the file is closed; return filename
D126End(r) ==
    /\ r.pc = "d126"
    /\ files' = [files EXCEPT ![r.idx] = "complete"]
    /\ threads' = Goto(r, "d137")
    /\ UNCHANGED << app, remote, fetched, fields, svc, mixer, main, hist >>

\* media_player.py:126  iter_content raises mid-stream
D126Fail(r) ==
    /\ r.pc = "d126"
    /\ threads' = Goto(r, "d137e")
    /\ UNCHANGED << app, remote, fetched, fields, svc, mixer, files, main, hist >>

\* media_player.py:136-139  finally: is_downloading = False; progress = 0;
\* then the call returns the filename (d137) or re-raises (d137e)
D137(r) ==
    /\ r.pc \in {"d137", "d137e"}
    /\ ds_downloading' = FALSE
    /\ progress' = 0
    /\ threads' = Exit(r)
    /\ UNCHANGED << app, remote, fetched, fields, state, ap_episode, current_file, mixer, files, main, hist >>

\* ------------------------------------------------------------------ AudioPlayer
\* load_and_play with line 155 forgotten: the episode shown stays the
\* previous one
load_and_play_KeepEpisode(file_path, episode) ==
    /\ app = "svc"
    /\ \/ /\ files[file_path] # "absent"
          /\ mixer' = [file |-> Some(file_path), st |-> "playing"]
          /\ current_file' = Some(file_path)
          /\ state' = "playing"
          /\ hist' = LoadReturned(file_path, episode)
          /\ UNCHANGED ap_episode
       \/ /\ UNCHANGED << mixer, current_file, ap_episode, state >>
          /\ hist' = LoadRaised
    /\ UNCHANGED << app, remote, fetched, fields, progress, ds_downloading, files, threads, main >>

\* media_player.py:150-156  load_and_play: load, play and the three writes;
\* or load raises pygame.error (always, when there is no file at the path),
\* which leaves the mixer and the fields as they were
load_and_play(file_path, episode) ==
    /\ app = "svc"
    /\ \/ /\ files[file_path] # "absent"
          /\ mixer' = [file |-> Some(file_path), st |-> "playing"]
          /\ current_file' = Some(file_path)
          /\ ap_episode' = Some(episode)
          /\ state' = "playing"
          /\ hist' = LoadReturned(file_path, episode)
       \/ /\ UNCHANGED << mixer, current_file, ap_episode, state >>
          /\ hist' = LoadRaised
    /\ UNCHANGED << app, remote, fetched, fields, progress, ds_downloading, files, threads, main >>

\* media_player.py:158-165  toggle_play_pause
toggle_play_pause ==
    /\ app = "svc"
    /\ \/ /\ state = "playing"
          /\ mixer' = MixerPause
          /\ state' = "paused"
       \/ /\ state = "paused"
          /\ mixer' = MixerUnpause
          /\ state' = "playing"
       \/ /\ state = "stopped"
          /\ UNCHANGED << mixer, state >>
    /\ hist' = Returned(EnterToggle)
    /\ UNCHANGED << app, remote, fetched, fields, ap_episode, current_file, progress, ds_downloading,
                    files, threads, main >>

\* media_player.py:167-172  stop
stop ==
    /\ app = "svc"
    /\ mixer' = MixerStop
    /\ state' = "stopped"
    /\ ap_episode' = None
    /\ current_file' = None
    /\ hist' = Returned(EnterStop)
    /\ UNCHANGED << app, remote, fetched, fields, progress, ds_downloading, files, threads, main >>

\* ------------------------------------------------------------------ specifications
\* a request that starts a download thread
PlayStep ==
    \/ \E i \in FileNames : play_episode(i)
    \/ \E e \in Episodes : download_episode(e)

\* every other step of the presentation thread or of the services' client
ControlStep ==
    \/ fetch_episodes
    \/ Toggle139 \/ Toggle141 \/ Toggle142 \/ Toggle144 \/ Toggle145
    \/ Stop149 \/ Stop150 \/ Stop151
    \/ Tick457 \/ Tick457c \/ Tick458 \/ EndFrame
    \/ \E f \in FileNames, e \in Episodes : load_and_play(f, e)
    \/ toggle_play_pause
    \/ stop

ThreadStep ==
    \/ \E r \in Running : L61(r)
    \/ \E r \in Running : L62(r)
    \/ \E r \in Running : L64(r)
    \/ \E r \in Running : L71Chunk(r)
    \/ \E r \in Running : L71End(r)
    \/ \E r \in Running : L71Fail(r)
    \/ \E r \in Running : L77(r)
    \/ \E r \in Running : L127(r)
    \/ \E r \in Running : L128(r)
    \/ \E r \in Running : L129(r)
    \/ \E r \in Running : L130(r)
    \/ \E r \in Running : L131(r)
    \/ \E r \in Running : D112(r)
    \/ \E r \in Running : D119(r)
    \/ \E r \in Running : D126Chunk(r)
    \/ \E r \in Running : D126End(r)
    \/ \E r \in Running : D126Fail(r)
    \/ \E r \in Running : D137(r)

Next ==
    \/ PlayStep
    \/ ControlStep
    \/ ThreadStep
    \/ TrackEnds

\* either program, with up to MaxThreads download threads running at once
Spec == Init /\ [][Next]_vars

\* either program used one request at a time: a download is requested only
\* when no download thread is running
NextSeq ==
    \/ \E i \in FileNames : threads = EmptyBag /\ play_episode(i)
    \/ \E e \in Episodes : threads = EmptyBag /\ download_episode(e)
    \/ ControlStep
    \/ ThreadStep
    \/ TrackEnds

SpecSeq == Init /\ [][NextSeq]_vars

\* either program used one request at a time, over a feed whose content
\* changes, the services' client fetching the feed as well
NextFeed ==
    \/ NextSeq
    \/ FeedChanges
    \/ \E limit \in Limits : service_fetch_episodes(limit)

InitFeed == Constructed /\ remote \in FeedChoices

SpecFeed == InitFeed /\ [][NextFeed]_vars

\* ------------------------------------------------------------------ properties
\* the number of threads inside download_episode
ActiveDownloads ==
    BagCardinality([r \in { q \in Running : Downloading(q) } |-> threads[r]])

\* the progress and the flag that the presentation layer polls
Progress == IF app = "main" THEN download_progress ELSE progress
IsDownloading == IF app = "main" THEN is_downloading ELSE ds_downloading

\* thread r starts its job: the step that resets the progress
JobStarts(r) == L62(r) \/ D112(r)
\* thread r receives a chunk
JobChunk(r) == L71Chunk(r) \/ D126Chunk(r)
\* thread r ends its job by returning the filename
JobSucceeds(r) == L77(r) \/ (r.pc = "d137" /\ D137(r))
\* thread r ends its job by an exception, raised by the request or mid-stream
JobFails(r) ==
    \/ r.pc \in {"l64", "l71"} /\ threads' = Exit(r) /\ UNCHANGED << fields, files >>
    \/ r.pc = "d137e" /\ D137(r)
\* thread r loads its file into the audio output
Loads(r) == L128(r) /\ mixer' = MixerLoad(audio_file) /\ threads' # Exit(r)

\* the flags and the output agree: paused exactly when the stream is paused
Agrees(v) == (v.paused => v.out.st # "playing") /\ (~v.paused => v.out.st # "paused")

\* C1: a request that was superseded by a later one while its download was
\* in flight never loads its file into the audio output.
C1_Supersede == [][\A r \in Running : r.sup => ~Loads(r)]_vars

\* C2: at the moment stop returns, the audio output is not busy.
C2_StopSilences == [][(Stop151 \/ stop) => ~get_busy']_vars

\* C3: between two operations, with no download thread running, the current
\* episode is set exactly when the player is Playing or Paused.
C3_EpisodeIffActive ==
    (main = "events" /\ threads = EmptyBag) => ((View.episode # None) <=> View.playing)

\* C4: in the application, at most one download task is between its start
\* and its end.
C4_OneDownload == app = "main" => ActiveDownloads <= 1

\* C5: within a job that runs alone the progress is 0 after the job's start,
\* it never decreases from one chunk to the next, and it is 0 again after
\* the job's end, by success or by failure.
C5_Progress ==
    [][\A r \in Running :
          BagCardinality(threads) = 1 =>
             /\ (JobStarts(r) => Progress' = 0)
             /\ (JobChunk(r) => Progress' >= Progress)
             /\ ((JobSucceeds(r) \/ JobFails(r)) => Progress' = 0)]_vars

\* C6: when a download that runs alone fails, at the request or mid-stream,
\* no partial file is left at its destination, the downloading flag is
\* false, and nothing is loaded into the audio output.
C6_FailureCleansUp ==
    [][\A r \in Running :
          (BagCardinality(threads) = 1 /\ JobFails(r)) =>
             /\ files'[r.idx] # "partial"
             /\ ~IsDownloading'
             /\ mixer' = mixer]_vars

\* C7: when stop returns, no thread having run beside it, the player is
\* Stopped and has neither a current episode nor a current file; a second
\* stop in a row changes nothing.
C7_StopClears ==
    [][/\ ((Stop151 \/ stop) /\ hist'.op = "stop")
             => (~View'.playing /\ ~View'.paused
                 /\ View'.episode = None /\ View'.file = None)
       /\ (Stop151 /\ hist.op = "stop" /\ hist.snap # None)
             => View' = hist.snap[1]
       /\ (stop /\ hist.op = "stop" /\ hist.n = 1 /\ threads = EmptyBag)
             => View' = View]_vars

\* C8: toggle_play_pause called on a Stopped player changes nothing of the
\* playback state or of the audio output; called twice in a row it brings
\* the playback state (the flags, the current episode and the current file)
\* back to what it was, and the audio output too when output and flags
\* agreed; the current episode and the current file never change.
C8_ToggleInvolution ==
    hist.op = "toggle" =>
       LET s == hist.snap[1] IN
       /\ View.episode = s.episode /\ View.file = s.file
       /\ (hist.n >= 1 /\ ~s.playing) => View = s
       /\ hist.n = 2 => /\ View.playing = s.playing /\ View.paused = s.paused
                        /\ Agrees(s) => View = s

\* the application Playing with the stream playing, after two toggles
C8_Witness ==
    /\ app = "main"
    /\ hist.op = "toggle" /\ hist.n = 2
    /\ hist.snap[1].playing /\ ~hist.snap[1].paused
    /\ hist.snap[1].out.st = "playing"

\* C9: the per-frame check that finds the player Playing and the output not
\* busy leaves the player Stopped with no current episode and no current
\* file on that tick; on a paused player it changes nothing.
C9_TickClears ==
    [][/\ (Tick457c /\ is_paused) => (main' = "draw" /\ UNCHANGED fields)
       /\ Tick458 => (~is_playing' /\ current_episode' = None /\ audio_file' = None)]_vars

\* C10: while a response without content-length is received, by a job that
\* runs alone, the progress is 0 after every chunk, and at the end of the
\* stream the job has completed its file.
C10_UnknownLength ==
    \A r \in Running :
        r.total = 0 =>
           /\ r.pc \in {"l71", "l77", "d126", "d137"} => Progress = 0
           /\ r.pc \in {"l77", "d137"} => files[r.idx] = "complete"

\* a job of the application, without content-length, that has received
\* every chunk and completed
C10_Witness ==
    \E r \in Running :
        /\ app = "main"
        /\ r.pc \in {"l77", "d137"} /\ r.total = 0 /\ r.downloaded = MaxBytes
        /\ Progress = 0 /\ files[r.idx] = "complete"

\* C11: the progress that the presentation layer polls is within 0..100 in
\* every state, whatever length the response declares and whatever chunks
\* it delivers.
C11_ProgressRange == Progress \in 0 .. 100

\* the titles of the entries of a feed list that have an audio enclosure
RECURSIVE WithAudio(_)
WithAudio(list) ==
    IF list = << >> THEN << >>
    ELSE (IF HasEnclosures(Head(list)) THEN << Head(list).title >> ELSE << >>)
         \o WithAudio(Tail(list))

\* the titles of a list of Episode
Titles(list) == [k \in 1 .. Len(list) |-> list[k].title]

\* C12: a fetch that succeeds returns the entries of the first limit ones
\* that have an audio enclosure, in order, and the index of every record of
\* the returned list is its zero-based position in that list.
C12_FilteredIndex ==
    /\ [][\A limit \in Limits :
            (service_fetch_episodes(limit) /\ fetched' # Some(<< >>))
               => Titles(fetched'[1]) = WithAudio(Take(remote, limit))]_vars
    /\ [](fetched # None =>
            \A k \in 1 .. Len(fetched[1]) : fetched[1][k].index = k - 1)

\* a thread that has assigned self.audio_file, and one that has loaded it
AfterAssign == {"l128", "l129", "l130", "l131"}
AfterLoad == {"l129", "l130", "l131"}

\* C13: a refresh changes nothing but the episode list: the playback state,
\* the current episode and file, the download flag and progress, the files
\* and the download threads, with the index and url they were started with,
\* stay as they were; and a thread that runs alone assigns and loads the
\* file of its own index, whatever the list holds by then.
C13_RefreshFrame ==
    /\ [][fetch_episodes =>
            UNCHANGED << current_episode, audio_file, is_playing, is_paused,
                         download_progress, is_downloading, mixer, files, threads >>]_vars
    /\ [](\A r \in Running :
            /\ r.pc \in AfterAssign => audio_file = Some(r.idx)
            /\ r.pc \in AfterLoad => mixer.file = Some(r.idx)
            /\ current_episode # None => current_episode[1].title = r.url)

\* a download that has completed, loaded and played its file although a
\* refresh made during it left no entry of its episode in the list
C13_Witness ==
    \E r \in Running :
        /\ r.pc = "l131"
        /\ episodes # << >>
        /\ \A k \in 1 .. Len(episodes) : episodes[k].title # r.url
        /\ audio_file = Some(r.idx)
        /\ mixer = [file |-> Some(r.idx), st |-> "playing"]
        /\ is_playing
        /\ current_episode # None

\* C14: a fetch that fails returns to its caller: the application's list
\* is what it was before the refresh and the event loop goes on, and the
\* service returns a list.
C14_RetainOnFailure ==
    [][/\ (fetch_episodes /\ hist'.op = "fetch_error")
             => (episodes' = episodes /\ main' = "events")
       /\ \A limit \in Limits : service_fetch_episodes(limit) => fetched' # None]_vars

\* a refresh has failed, and the list held before it, which is not the one
\* the feed serves, is still there
C14_Witness ==
    /\ hist.op = "fetch_error"
    /\ episodes # << >>
    /\ episodes # Take(remote, FetchLimit)

\* download_and_play ends at line 128: pygame.mixer.music.load has raised
LoadFails(r) == L128(r) /\ threads' = Exit(r)

\* C15: when the audio output cannot load the file, in download_and_play or
\* in load_and_play, the player is Stopped afterwards and has no current
\* episode.
C15_LoadFailureStops ==
    [][/\ \A r \in Running :
             LoadFails(r) => (~View'.playing /\ View'.episode = None)
       /\ \A f \in FileNames, e \in Episodes :
             (load_and_play(f, e) /\ hist'.op = "load_error")
                => (~View'.playing /\ View'.episode = None)]_vars

\* the threads of DownloadService.download_episode
ServicePcs == {"d112", "d119", "d126", "d137", "d137e"}

\* C16: a download_episode(e) that runs alone writes the file of index
\* e.index and, when it returns the path, the file there is complete; and a
\* load_and_play(path, e) that returns leaves the player Playing, with e as
\* the current episode, the path as the current file, and that file playing.
C16_RoundTrip ==
    /\ \A r \in Running :
          /\ r.pc \in ServicePcs =>
                 \E e \in Episodes : r.idx = e.index /\ r.url = e.title
          /\ r.pc = "d137" => files[r.idx] = "complete"
    /\ hist.op = "load" =>
          LET c == hist.snap[1] IN
          /\ state = "playing"
          /\ ap_episode = Some(c.episode)
          /\ current_file = Some(c.file_path)
          /\ mixer = [file |-> Some(c.file_path), st |-> "playing"]

\* load_and_play has returned, called on a Paused player with the path of a
\* completed download of another episode than the one that was current
C16_Witness ==
    /\ hist.op = "load"
    /\ hist.snap[1].before.paused
    /\ hist.snap[1].before.episode # Some(hist.snap[1].episode)
    /\ hist.snap[1].file_path = hist.snap[1].episode.index
    /\ files[hist.snap[1].file_path] = "complete"

\* a thread between the start of its job (the flag has been set) and its end
\* (the flag has not been cleared yet)
InJob == {"l62", "l64", "l71", "l77", "d119", "d126", "d137", "d137e"}

\* thread r ends its job: the step that clears the flag
JobEnds(r) == L77(r) \/ D137(r)

\* C17: the downloading flag is true in every state in which a download
\* thread is between its start and its end, and the end of one job does not
\* change the progress of another job that is still running.
C17_FlagWhileDownloading ==
    /\ []((\E r \in Running : r.pc \in InJob) => IsDownloading)
    /\ [][\A r \in Running :
            (JobEnds(r) /\ \E q \in BagToSet(threads') : q.pc \in InJob)
               => Progress' = Progress]_vars

\* C18: stop_playback called, and returned, while the only download started
\* by play_episode was still inside download_episode leaves that thread
\* running with the current episode cleared; once the thread has come to
\* load its file, that file is the one loaded; once it has called play(),
\* the output is busy; and once it has written is_playing, the
\* player reports Playing, the current episode being still None.
C18_StopKeepsPendingPlay ==
    (app = "main" /\ hist.op = "stop_pending" /\ hist.n = 1) =>
        /\ current_episode = None
        /\ \A r \in Running :
              /\ r.pc \in AfterLoad => mixer.file = Some(r.idx)
              /\ r.pc \in {"l130", "l131"} => get_busy
              /\ r.pc = "l131" => is_playing

\* the download that was in flight when stop returned has completed, loaded
\* and played its file and set is_playing
C18_Witness ==
    /\ app = "main" /\ hist.op = "stop_pending" /\ hist.n = 1
    /\ \E r \in Running :
          /\ r.pc = "l131"
          /\ mixer = [file |-> Some(r.idx), st |-> "playing"]
    /\ is_playing
    /\ current_episode = None

\* C19: at a frame boundary of the presentation loop, is_paused implies
\* is_playing, and a busy audio output implies is_playing.
C19_FlagsAtFrame ==
    (app = "main" /\ main = "events") =>
        /\ is_paused => is_playing
        /\ get_busy => is_playing

====
